---------------------------- MODULE Spec2Model ----------------------------
(***************************************************************************)
(* A model of PoreBlazerRun (src/src/PoreBlazerRun/__init__.py): the       *)
(* loader that registers the PoreBlazer output files of a directory,       *)
(* rewrites four of them in place (clean) and parses three of them.        *)
(*                                                                         *)
(* A file's content is a sequence of characters, each character a          *)
(* one-character string.  The text operators below are the Python string   *)
(* operations the loader uses, computed as Python computes them.           *)
(***************************************************************************)
EXTENDS Integers, Sequences, FiniteSets, TLC

(***************************************************************************)
(* Characters                                                              *)
(***************************************************************************)
SP == " "
NL == "\n"
CR == "\r"
COMMA == ","
COLON == ":"
USCORE == "_"
DOT == "."

\* The characters str.strip() removes and the ones str.splitlines() breaks
\* on, restricted to the characters the model's files are built from.
Whitespace == {SP, NL, CR}
LineBreaks == {NL, CR}
Digits == {"0", "1", "2", "3", "4", "5", "6", "7", "8", "9"}

(***************************************************************************)
(* Python string operations.  The operators that walk a text character by  *)
(* character are written over its indices, not by recursion, so that a     *)
(* file of a hundred characters can be evaluated.                          *)
(***************************************************************************)
Drop(s, n) == SubSeq(s, n + 1, Len(s))
Take(s, n) == SubSeq(s, 1, n)

\* the elements of a set of indices of a text of length n, ascending
Ascending(S, n) ==
    LET In(i) == i \in S IN SelectSeq([i \in 1..n |-> i], In)

\* the concatenation of pieces that hold at most one character each
Flatten1(pieces) ==
    LET NonEmpty(x) == x # <<>>
        ne == SelectSeq(pieces, NonEmpty)
    IN  [k \in 1..Len(ne) |-> ne[k][1]]

\* the places where pat occurs in s
Matches(s, pat) ==
    {i \in 1..(Len(s) - Len(pat) + 1) : SubSeq(s, i, i + Len(pat) - 1) = pat}

\* pat in s
Contains(s, pat) == Matches(s, pat) # {}

\* s.replace(old, new) for an old of one or two characters and a new of at
\* most one, as all the loader's are: the non-overlapping occurrences of old,
\* leftmost first.  Of a run of occurrences that start at successive places
\* (they overlap) the first, third, ... are the ones replaced.
Replace(s, old, new) ==
    LET M == Matches(s, old)
        RunStart(i) == CHOOSE j \in 1..i :
                           /\ \A l \in j..i : l \in M
                           /\ (j - 1) \notin M
        Chosen(i) == /\ i \in M
                     /\ Len(old) = 1 \/ (i - RunStart(i)) % 2 = 0
        Covered(i) == Len(old) = 2 /\ i > 1 /\ Chosen(i - 1)
    IN  Flatten1([i \in 1..Len(s) |->
                     IF Chosen(i) THEN new
                     ELSE IF Covered(i) THEN <<>>
                     ELSE <<s[i]>>])

\* re.sub(r"( +)", r" ", s): every maximal run of spaces becomes one space
CollapseSpaces(s) ==
    Flatten1([i \in 1..Len(s) |->
                 IF s[i] = SP /\ i > 1 /\ s[i - 1] = SP THEN <<>> ELSE <<s[i]>>])

\* s.splitlines(): "\r\n" is one break, a final break adds no empty line
splitlines(s) ==
    LET n == Len(s)
        \* the last character of every line break
        ends == Ascending({i \in 1..n : /\ s[i] \in LineBreaks
                                        /\ ~(s[i] = CR /\ i < n /\ s[i + 1] = NL)},
                          n)
        first(k) == IF k = 1 THEN 1 ELSE ends[k - 1] + 1
        last(k) == IF k > Len(ends) THEN n
                   ELSE IF s[ends[k]] = NL /\ ends[k] > 1 /\ s[ends[k] - 1] = CR
                   THEN ends[k] - 2
                   ELSE ends[k] - 1
        count == IF n = 0 THEN 0
                 ELSE IF ends # <<>> /\ ends[Len(ends)] = n THEN Len(ends)
                 ELSE Len(ends) + 1
    IN  [k \in 1..count |-> SubSeq(s, first(k), last(k))]

\* s.split(sep) for a one-character sep: always at least one token
split(s, sep) ==
    LET n == Len(s)
        at == Ascending({i \in 1..n : s[i] = sep}, n)
        first(k) == IF k = 1 THEN 1 ELSE at[k - 1] + 1
        last(k) == IF k > Len(at) THEN n ELSE at[k] - 1
    IN  [k \in 1..(Len(at) + 1) |-> SubSeq(s, first(k), last(k))]

\* s.strip()
strip(s) ==
    LET inner == {i \in 1..Len(s) : s[i] \notin Whitespace} IN
    IF inner = {} THEN <<>>
    ELSE SubSeq(s, CHOOSE i \in inner : \A j \in inner : i <= j,
                   CHOOSE i \in inner : \A j \in inner : i >= j)

\* sep.join(parts)
RECURSIVE join(_, _)
join(parts, sep) ==
    IF parts = <<>> THEN <<>>
    ELSE IF Len(parts) = 1 THEN parts[1]
    ELSE join(Take(parts, Len(parts) - 1), sep) \o sep \o parts[Len(parts)]

\* What open(mode="r").read() returns for the bytes of a file: universal
\* newlines turn "\r\n" and "\r" into "\n".
ReadText(bytes) == Replace(Replace(bytes, <<CR, NL>>, <<NL>>), <<CR>>, <<NL>>)


\* What a text-mode write stores for a text: on the POSIX systems the model
\* covers os.linesep is "\n", so the characters are stored unchanged.
WriteText(text) == text

(***************************************************************************)
(* Cleaning transforms (the text each cleaning method writes back)         *)
(***************************************************************************)
\* __clean_psds, lines 63-69: collapse double spaces until none is left,
\* then drop the space after and the space before every newline
RECURSIVE clean_psds_data(_)
clean_psds_data(data) ==
    IF Contains(data, <<SP, SP>>)
    THEN clean_psds_data(Replace(data, <<SP, SP>>, <<SP>>))
    ELSE Replace(Replace(data, <<NL, SP>>, <<NL>>), <<SP, NL>>, <<NL>>)

\* a guard that looks for the comma at the start of the file only
already_csv_at_start(text) == text # <<>> /\ text[1] = COMMA

\* __clean_summary, line 82: the guard that skips an already cleaned file
already_csv(text) == Contains(text, <<COMMA>>)

\* __clean_summary, lines 85-87
summary_normalize(text) ==
    CollapseSpaces(Replace(Replace(text, <<SP, USCORE>>, <<USCORE>>),
                           <<COLON>>, <<>>))

\* a loop whose three-token case joins the last two tokens, not the first two
summary_line_joins_last(raw) ==
    LET line == strip(raw)
        splitted == split(line, SP)
    IN  CASE Len(splitted) = 1 -> line
          [] Len(splitted) = 2 -> splitted[1] \o <<SP>> \o splitted[2]
          [] Len(splitted) = 3 ->
                 splitted[1] \o <<SP>> \o splitted[2] \o <<USCORE>> \o splitted[3]
          [] OTHER -> line

\* __clean_summary, lines 90-99: one line of the loop
summary_line(raw) ==
    LET line == strip(raw)
        splitted == split(line, SP)
    IN  CASE Len(splitted) = 1 -> line
          [] Len(splitted) = 2 -> splitted[1] \o <<SP>> \o splitted[2]
          [] Len(splitted) = 3 ->
                 splitted[1] \o <<USCORE>> \o splitted[2] \o <<SP>> \o splitted[3]
          [] OTHER -> line

\* __clean_summary, lines 99-100: the line makes the loop print "error"
summary_line_error(raw) == Len(split(strip(raw), SP)) \notin {1, 2, 3}

\* __clean_summary, lines 85-103: the text written back
clean_summary_text(text) ==
    LET lines == splitlines(summary_normalize(text))
    IN  join([i \in 1..Len(lines) |-> summary_line(lines[i])], <<NL>>)

\* the number of "error" lines __clean_summary prints for a text
clean_summary_errors(text) ==
    LET lines == splitlines(summary_normalize(text))
    IN  Cardinality({i \in 1..Len(lines) : summary_line_error(lines[i])})

\* __clean_occup_vol, lines 115-116
clean_occup_vol_text(text) ==
    LET lines == splitlines(CollapseSpaces(text))
    IN  join([i \in 1..Len(lines) |-> strip(lines[i])], <<NL>>)

(***************************************************************************)
(* Numbers: what float() and int() accept and return, for tokens made of   *)
(* digits, "_" and "." (no sign, exponent, "inf" or "nan": the model's     *)
(* files hold none of the characters those need).                          *)
(***************************************************************************)
DigitSeq == <<"0", "1", "2", "3", "4", "5", "6", "7", "8", "9">>
DigitVal(ch) == (CHOOSE d \in 1..Len(DigitSeq) : DigitSeq[d] = ch) - 1

\* digits, with single underscores allowed between digits
IsDigitGroup(t) ==
    /\ t # <<>>
    /\ t[1] \in Digits
    /\ t[Len(t)] \in Digits
    /\ \A i \in 1..Len(t) : t[i] \in Digits \cup {USCORE}
    /\ ~Contains(t, <<USCORE, USCORE>>)

is_int(tok) == IsDigitGroup(tok)

is_float(tok) ==
    LET parts == split(tok, DOT) IN
    \/ Len(parts) = 1 /\ IsDigitGroup(parts[1])
    \/ /\ Len(parts) = 2
       /\ parts[1] = <<>> \/ IsDigitGroup(parts[1])
       /\ parts[2] = <<>> \/ IsDigitGroup(parts[2])
       /\ parts[1] # <<>> \/ parts[2] # <<>>

RECURSIVE NumOf(_, _)
NumOf(t, acc) ==
    IF t = <<>> THEN acc
    ELSE IF Head(t) = USCORE THEN NumOf(Tail(t), acc)
    ELSE NumOf(Tail(t), 10 * acc + DigitVal(Head(t)))

RECURSIVE StripZeros(_)
StripZeros(t) ==
    IF t # <<>> /\ t[Len(t)] = "0" THEN StripZeros(Take(t, Len(t) - 1)) ELSE t

\* int(tok)
int_of(tok) == [type |-> "int", val |-> NumOf(tok, 0)]

\* float(tok): the decimal num / 10^exp
float_of(tok) ==
    LET parts == split(tok, DOT)
        frac == IF Len(parts) = 2
                THEN StripZeros(Replace(parts[2], <<USCORE>>, <<>>)) ELSE <<>>
    IN  [type |-> "float", num |-> NumOf(parts[1] \o frac, 0), exp |-> Len(frac)]

(***************************************************************************)
(* __parse_summary                                                         *)
(***************************************************************************)
\* lines[lo:hi] of a Python list held as a 1-based sequence
Slice(lines, lo, hi) ==
    SubSeq(lines, lo + 1, IF hi < Len(lines) THEN hi ELSE Len(lines))

\* a dict comprehension over (key, value) pairs: the last pair of a key wins
dict_of(pairs) ==
    {pairs[i] : i \in {j \in 1..Len(pairs) :
                          \A l \in (j + 1)..Len(pairs) : pairs[l][1] # pairs[j][1]}}

\* The comprehension `{name: number for i, line in enumerate(sl) if i != skip}`
\* with the number an int at local index int_at: the local indices it visits,
\* whether an entry raises (IndexError for a missing second token, ValueError
\* for one that is no number), and the dict it builds.
visited(sl, skip) == {i \in 0..(Len(sl) - 1) : i # skip}

\* an entry that insists on exactly two tokens
entry_raises_unless_two(line, as_int) ==
    LET t == split(line, SP) IN
    \/ Len(t) # 2
    \/ IF as_int THEN ~is_int(t[2]) ELSE ~is_float(t[2])

entry_raises(line, as_int) ==
    LET t == split(line, SP) IN
    \/ Len(t) < 2
    \/ IF as_int THEN ~is_int(t[2]) ELSE ~is_float(t[2])

entry(line, as_int) ==
    LET t == split(line, SP) IN
    <<t[1], IF as_int THEN int_of(t[2]) ELSE float_of(t[2])>>

raising(sl, skip, int_at) ==
    {i \in visited(sl, skip) : entry_raises(sl[i + 1], i = int_at)}

RECURSIVE entries(_, _, _, _)
entries(sl, skip, int_at, i) ==
    IF i >= Len(sl) THEN <<>>
    ELSE IF i = skip THEN entries(sl, skip, int_at, i + 1)
    ELSE <<entry(sl[i + 1], i = int_at)>> \o entries(sl, skip, int_at, i + 1)

Min(S) == CHOOSE x \in S : \A y \in S : x <= y

\* __parse_summary with the index at which general_output holds an integer
\* and the local index the other two sections skip.  Returns ok, or the
\* absolute index of the line that raised.
parse_summary_at(bytes, int_at, skip_at) ==
    LET lines == splitlines(ReadText(bytes))
        general == Slice(lines, 1, 7)
        total == Slice(lines, 8, 19)
        network == Slice(lines, 20, Len(lines))
        bad == {1 + i : i \in raising(general, -1, int_at)}
               \cup {8 + i : i \in raising(total, skip_at, -1)}
               \cup {20 + i : i \in raising(network, skip_at, -1)}
    IN  IF lines = <<>> THEN [ok |-> FALSE, line |-> 0]
        ELSE IF bad # {} THEN [ok |-> FALSE, line |-> Min(bad)]
        ELSE [ok |-> TRUE,
              input_file_name |-> lines[1],
              summary |->
                  {<<"general_output", dict_of(entries(general, -1, int_at, 0))>>,
                   <<"total_output", dict_of(entries(total, skip_at, -1, 0))>>,
                   <<"network_accessible_output",
                     dict_of(entries(network, skip_at, -1, 0))>>}]

\* a parse that skips local index 4 of the two later sections
parse_summary_skips_4(bytes) == parse_summary_at(bytes, 5, 4)

parse_summary_result(bytes) == parse_summary_at(bytes, 5, 3)

(***************************************************************************)
(* pl.read_csv(path, separator=" ", has_header=False, skip_lines=n,        *)
(* new_columns=[...]) and the join of __parse_psds.  polars is a library:  *)
(* for a file in which every data line has exactly one field per column    *)
(* the table is the one below; for any other file (no data line, a line    *)
(* with more or fewer fields) the call may raise or may return a table,    *)
(* and the model allows both.                                              *)
(***************************************************************************)
Null == [type |-> "null"]

csv_lines(bytes) ==
    LET parts == split(bytes, NL) IN
    IF parts[Len(parts)] = <<>> THEN Take(parts, Len(parts) - 1) ELSE parts

csv_value(field) ==
    IF field = <<>> THEN Null
    ELSE IF is_float(field) THEN float_of(field)
    ELSE [type |-> "str", text |-> field]

csv_conforms(bytes, skip_lines, ncols) ==
    LET lines == Drop(csv_lines(bytes), skip_lines) IN
    /\ lines # <<>>
    /\ \A k \in 1..Len(lines) : Len(split(lines[k], SP)) = ncols

csv_rows(bytes, skip_lines, ncols) ==
    LET lines == Drop(csv_lines(bytes), skip_lines) IN
    [k \in 1..Len(lines) |->
        LET fields == split(lines[k], SP) IN
        [j \in 1..ncols |-> IF j <= Len(fields) THEN csv_value(fields[j]) ELSE Null]]

read_csv(bytes, skip_lines, new_columns) ==
    LET table == [ok |-> TRUE, columns |-> new_columns,
                  rows |-> csv_rows(bytes, skip_lines, Len(new_columns))]
    IN  IF csv_conforms(bytes, skip_lines, Len(new_columns)) THEN {table}
        ELSE {table, [ok |-> FALSE]}

\* pl.DataFrame()
EmptyFrame == [columns |-> <<>>, rows |-> <<>>]

\* tab_psd_c.join(tab_psd, on="d", how="full", coalesce=True): the rows as a
\* set of <<d, Volume Fraction, Derivative_dist>>
join_full(left, right) ==
    LET L == {left[i] : i \in 1..Len(left)}
        R == {right[i] : i \in 1..Len(right)}
        Match(l, r) == l[1] = r[1] /\ l[1] # Null
    IN  {<<m[1][1], m[1][2], m[2][2]>> :
                 m \in {x \in L \X R : Match(x[1], x[2])}}
        \cup {<<l[1], l[2], Null>> : l \in {x \in L : \A r \in R : ~Match(x, r)}}
        \cup {<<r[1], Null, r[2]>> : r \in {x \in R : \A l \in L : ~Match(l, x)}}

(***************************************************************************)
(* The directory and the callers                                           *)
(***************************************************************************)
\* __get_paths, lines 178-187
possible_paths ==
    [psd_cum |-> "Total_psd_cumulative.txt",
     psd |-> "Total_psd.txt",
     summary |-> "summary.dat",
     occup_vol |-> "probe_occupiable_volume.xyz",
     na_psd_cum |-> "Network-accessible_psd_cumulative.txt",
     na_psd |-> "Network-accessible_psd.txt",
     N_net_xyz |-> "nitrogen_network.xyz",
     N_net_grd |-> "nitrogen_network.grd"]

Keys == DOMAIN possible_paths
FileNames == {possible_paths[k] : k \in Keys}
\* the files clean() rewrites, in the order it takes them (lines 50-55)
CleanKeys == {"psd_cum", "psd", "summary", "occup_vol"}
Callers == {1, 2}

VARIABLES
    present,           \* the file names that exist in the directory
    disk,              \* file name -> the file's content
    denied,            \* <<file name, "r" or "w">>: opens that fail
    orig,              \* disk as it was before any caller ran
    plan,              \* caller -> the calls it is still to make
    call,              \* caller -> "init" (inside __init__) or "clean" (a later clean())
    clean_arg,         \* caller -> the clean argument of its constructor call
    before,            \* caller -> disk as it was when the current call began
    pc,                \* caller -> where it is in that call
    cur,               \* caller -> the key whose file it is rewriting
    data,              \* caller -> the text it is about to write
    existing_paths,    \* caller -> self.existing_paths
    psd,               \* caller -> self.psd
    occup_vol,         \* caller -> self.occup_vol
    summary,           \* caller -> self.summary
    input_file_name,   \* caller -> self.input_file_name
    printed,           \* caller -> the "error" lines printed in this call
    ops,               \* caller -> the file operations of this call
    failed,            \* caller -> what the call raised on
    snaps              \* caller -> the cleaned files, after each pass of clean()

vars == <<present, disk, denied, orig, plan, call, clean_arg, before, pc, cur, data, existing_paths,
          psd, occup_vol, summary, input_file_name, printed, ops, failed, snaps>>

dir == <<present, denied, orig>>
attrs == <<psd, occup_vol, summary, input_file_name>>
calling == <<plan, call, clean_arg, before>>

NoFailure == [in |-> "none", key |-> "none", line |-> -1]
Failure(in, key, line) == [in |-> in, key |-> key, line |-> line]

Registered(c, k) == k \in DOMAIN existing_paths[c]
Opens(k, mode) == <<possible_paths[k], mode>> \notin denied
Snapshot(d) == [k \in CleanKeys |-> d[possible_paths[k]]]

\* a write that lands after whatever the file holds by then
Overlay_appends(old, new) == old \o new

\* file.write(data) through a descriptor opened at offset 0: the text lies
\* over whatever the file holds by then
Overlay(old, new) == new \o Drop(old, Len(new))

\* __get_paths, lines 189-193
get_paths ==
    [k \in {x \in Keys : possible_paths[x] \in present} |-> possible_paths[k]]

\* where a caller goes once the cleaning of key k is over (clean, lines 50-55,
\* and back in __init__, line 40)
after_clean(c, k) ==
    CASE k = "psd_cum" -> "clean_psd"
      [] k = "psd" -> "clean_summary"
      [] k = "summary" -> "clean_occup_vol"
      [] k = "occup_vol" -> IF call[c] = "init" THEN "parse_psds" ELSE "done"

pass_over(c, k, d) ==
    IF k = "occup_vol" THEN Append(snaps[c], Snapshot(d)) ELSE snaps[c]

\* a constructor that cleans whatever its clean argument
first_step_always_clean(clean) == "clean_psd_cum"

\* __init__, lines 36-40: where the constructor goes after the paths
first_step(clean) == IF clean THEN "clean_psd_cum" ELSE "parse_psds"

\* PoreBlazerRun(path_dir, clean=...): __init__, lines 25-38
construct(c) ==
    /\ pc[c] \in {"ready", "done", "raised"}
    /\ plan[c] # <<>>
    /\ Head(plan[c]) \in {"new_clean", "new_raw"}
    /\ plan' = [plan EXCEPT ![c] = Tail(@)]
    /\ call' = [call EXCEPT ![c] = "init"]
    /\ clean_arg' = [clean_arg EXCEPT ![c] = Head(plan[c]) = "new_clean"]
    /\ before' = [before EXCEPT ![c] = disk]
    /\ psd' = [psd EXCEPT ![c] = EmptyFrame]
    /\ occup_vol' = [occup_vol EXCEPT ![c] = EmptyFrame]
    /\ summary' = [summary EXCEPT ![c] = {}]
    /\ input_file_name' = [input_file_name EXCEPT ![c] = <<>>]
    /\ existing_paths' = [existing_paths EXCEPT ![c] = get_paths]
    /\ pc' = [pc EXCEPT ![c] = first_step(Head(plan[c]) = "new_clean")]
    /\ ops' = [ops EXCEPT ![c] = {}]
    /\ printed' = [printed EXCEPT ![c] = 0]
    /\ failed' = [failed EXCEPT ![c] = NoFailure]
    /\ UNCHANGED <<dir, disk, cur, data, snaps>>

\* run.clean() on an object a constructor returned: clean, lines 48-49
call_clean(c) ==
    /\ pc[c] = "done"
    /\ plan[c] # <<>>
    /\ Head(plan[c]) = "clean"
    /\ plan' = [plan EXCEPT ![c] = Tail(@)]
    /\ call' = [call EXCEPT ![c] = "clean"]
    /\ before' = [before EXCEPT ![c] = disk]
    /\ UNCHANGED clean_arg
    /\ pc' = [pc EXCEPT ![c] = "clean_psd_cum"]
    /\ ops' = [ops EXCEPT ![c] = {}]
    /\ printed' = [printed EXCEPT ![c] = 0]
    /\ UNCHANGED <<dir, disk, cur, data, existing_paths, attrs, failed, snaps>>

\* a cleaning that swallows the error and goes on with the next file
open_failed_ignored(c, k) == after_clean(c, k)

\* path.open(...) raises inside a cleaning method (lines 60, 71, 79, 105, 112,
\* 118): nothing catches it, the call is over
open_failed(c, k) == "raised"

\* What the cleaning methods share, up to the end of their `with open("r")`:
\*   "skip"   the key is not registered: nothing is opened
\*   "raise"  the open for reading fails
\*   "return" the file was read and the method returns without writing
\*   "write"  the file was read and text is what will be written
clean_read(c, k, kind, text, errors) ==
    /\ pc' = [pc EXCEPT ![c] = CASE kind = "raise" -> open_failed(c, k)
                                 [] kind = "write" -> "open_w"
                                 [] OTHER -> after_clean(c, k)]
    /\ ops' = [ops EXCEPT ![c] =
                  IF kind \in {"return", "write"} THEN @ \cup {<<"read", k>>} ELSE @]
    /\ data' = [data EXCEPT ![c] = IF kind = "write" THEN text ELSE @]
    /\ cur' = [cur EXCEPT ![c] = IF kind = "write" THEN k ELSE @]
    /\ printed' = [printed EXCEPT ![c] = IF kind = "write" THEN @ + errors ELSE @]
    /\ failed' = [failed EXCEPT ![c] =
                     IF kind = "raise" THEN Failure("clean", k, -1) ELSE @]
    /\ snaps' = [snaps EXCEPT ![c] =
                    IF kind \in {"skip", "return"} THEN pass_over(c, k, disk) ELSE @]
    /\ UNCHANGED <<dir, disk, calling, existing_paths, attrs>>

\* clean, lines 50-53, and __clean_psds, lines 60-69
clean_psds(c) ==
    /\ pc[c] \in {"clean_psd_cum", "clean_psd"}
    /\ LET k == IF pc[c] = "clean_psd_cum" THEN "psd_cum" ELSE "psd" IN
       clean_read(c, k,
                  IF ~Registered(c, k) THEN "skip"
                  ELSE IF ~Opens(k, "r") THEN "raise"
                  ELSE "write",
                  clean_psds_data(ReadText(disk[possible_paths[k]])), 0)

\* __clean_summary, lines 76-103
clean_summary(c) ==
    /\ pc[c] = "clean_summary"
    /\ LET text == ReadText(disk[possible_paths["summary"]]) IN
       clean_read(c, "summary",
                  IF ~Registered(c, "summary") THEN "skip"
                  ELSE IF ~Opens("summary", "r") THEN "raise"
                  ELSE IF already_csv(text) THEN "return"
                  ELSE "write",
                  clean_summary_text(text), clean_summary_errors(text))

\* __clean_occup_vol, lines 109-116
clean_occup_vol(c) ==
    /\ pc[c] = "clean_occup_vol"
    /\ clean_read(c, "occup_vol",
                  IF ~Registered(c, "occup_vol") THEN "skip"
                  ELSE IF ~Opens("occup_vol", "r") THEN "raise"
                  ELSE "write",
                  clean_occup_vol_text(ReadText(disk[possible_paths["occup_vol"]])),
                  0)

\* path.open("w") of a cleaning method (lines 71, 105, 118): the open
\* truncates the file, or fails
open_w(c) ==
    /\ pc[c] = "open_w"
    /\ IF Opens(cur[c], "w")
       THEN /\ disk' = [disk EXCEPT ![possible_paths[cur[c]]] = <<>>]
            /\ ops' = [ops EXCEPT ![c] = @ \cup {<<"truncate", cur[c]>>}]
            /\ pc' = [pc EXCEPT ![c] = "write"]
            /\ UNCHANGED failed
       ELSE /\ pc' = [pc EXCEPT ![c] = open_failed(c, cur[c])]
            /\ failed' = [failed EXCEPT ![c] = Failure("clean", cur[c], -1)]
            /\ UNCHANGED <<disk, ops>>
    /\ UNCHANGED <<dir, calling, cur, data, existing_paths, attrs, printed, snaps>>

\* file.write(...) and the close of a cleaning method (lines 72, 106, 119)
write(c) ==
    /\ pc[c] = "write"
    /\ disk' = [disk EXCEPT ![possible_paths[cur[c]]] = Overlay(@, WriteText(data[c]))]
    /\ ops' = [ops EXCEPT ![c] = @ \cup {<<"write", cur[c]>>}]
    /\ pc' = [pc EXCEPT ![c] = after_clean(c, cur[c])]
    /\ snaps' = [snaps EXCEPT ![c] = pass_over(c, cur[c], disk')]
    /\ data' = [data EXCEPT ![c] = <<>>]
    /\ cur' = [cur EXCEPT ![c] = "none"]
    /\ UNCHANGED <<dir, calling, existing_paths, attrs, printed, failed>>

\* What the parsing methods share: the attributes are as given, and the
\* caller goes on to `next`, or raises with the failure
parsed(c, next, failure) ==
    /\ pc' = [pc EXCEPT ![c] = IF failure = NoFailure THEN next ELSE "raised"]
    /\ failed' = [failed EXCEPT ![c] = failure]
    /\ UNCHANGED <<dir, disk, calling, cur, data, existing_paths, printed, snaps>>

\* a guard that asks for either PSD file, not both
psds_registered_either(c) == Registered(c, "psd") \/ Registered(c, "psd_cum")

\* __init__, line 41
psds_registered(c) == Registered(c, "psd") /\ Registered(c, "psd_cum")

\* __init__, lines 41-42, and __parse_psds, lines 122-137
parse_psds(c) ==
    /\ pc[c] = "parse_psds"
    /\ UNCHANGED <<occup_vol, summary, input_file_name>>
    /\ IF psds_registered(c)
       THEN \E cum \in read_csv(disk[possible_paths["psd_cum"]], 3,
                                <<"d", "Volume Fraction">>),
               der \in read_csv(disk[possible_paths["psd"]], 1,
                                <<"d", "Derivative_dist">>) :
               IF ~Opens("psd_cum", "r") \/ ~cum.ok
               THEN /\ parsed(c, "raised", Failure("parse_psds", "psd_cum", -1))
                    /\ ops' = [ops EXCEPT ![c] =
                                  IF Opens("psd_cum", "r")
                                  THEN @ \cup {<<"parse", "psd_cum">>} ELSE @]
                    /\ UNCHANGED psd
               ELSE IF ~Opens("psd", "r") \/ ~der.ok
               THEN /\ parsed(c, "raised", Failure("parse_psds", "psd", -1))
                    /\ ops' = [ops EXCEPT ![c] =
                                  @ \cup {<<"parse", "psd_cum">>}
                                    \cup IF Opens("psd", "r")
                                         THEN {<<"parse", "psd">>} ELSE {}]
                    /\ UNCHANGED psd
               ELSE /\ parsed(c, "parse_summary", NoFailure)
                    /\ ops' = [ops EXCEPT ![c] =
                                  @ \cup {<<"parse", "psd_cum">>, <<"parse", "psd">>}]
                    /\ psd' = [psd EXCEPT ![c] =
                                  [columns |-> <<"d", "Volume Fraction",
                                                 "Derivative_dist">>,
                                   rows |-> join_full(cum.rows, der.rows)]]
       ELSE /\ parsed(c, "parse_summary", NoFailure)
            /\ UNCHANGED <<psd, ops>>

\* __init__, line 43, and __parse_summary, lines 140-166
parse_summary(c) ==
    /\ pc[c] = "parse_summary"
    /\ UNCHANGED <<psd, occup_vol>>
    /\ IF Registered(c, "summary")
       THEN IF ~Opens("summary", "r")
            THEN /\ parsed(c, "raised", Failure("parse_summary", "summary", -1))
                 /\ UNCHANGED <<summary, input_file_name, ops>>
            ELSE LET bytes == disk[possible_paths["summary"]]
                     lines == splitlines(ReadText(bytes))
                     got == parse_summary_result(bytes)
                 IN  /\ ops' = [ops EXCEPT ![c] = @ \cup {<<"parse", "summary">>}]
                     /\ input_file_name' =
                            [input_file_name EXCEPT ![c] =
                                IF lines = <<>> THEN @ ELSE lines[1]]
                     /\ IF got.ok
                        THEN /\ summary' = [summary EXCEPT ![c] = got.summary]
                             /\ parsed(c, "parse_occup_vol", NoFailure)
                        ELSE /\ UNCHANGED summary
                             /\ parsed(c, "raised",
                                       Failure("parse_summary", "summary", got.line))
       ELSE /\ parsed(c, "parse_occup_vol", NoFailure)
            /\ UNCHANGED <<summary, input_file_name, ops>>

\* __init__, line 45, and __parse_occup_vol, lines 169-175
parse_occup_vol(c) ==
    /\ pc[c] = "parse_occup_vol"
    /\ UNCHANGED <<psd, summary, input_file_name>>
    /\ IF Registered(c, "occup_vol")
       THEN \E got \in read_csv(disk[possible_paths["occup_vol"]], 2,
                                <<"Particle", "x", "y", "z">>) :
               IF ~Opens("occup_vol", "r") \/ ~got.ok
               THEN /\ parsed(c, "raised", Failure("parse_occup_vol", "occup_vol", -1))
                    /\ ops' = [ops EXCEPT ![c] =
                                  IF Opens("occup_vol", "r")
                                  THEN @ \cup {<<"parse", "occup_vol">>} ELSE @]
                    /\ UNCHANGED occup_vol
               ELSE /\ parsed(c, "done", NoFailure)
                    /\ ops' = [ops EXCEPT ![c] = @ \cup {<<"parse", "occup_vol">>}]
                    /\ occup_vol' = [occup_vol EXCEPT ![c] =
                                        [columns |-> got.columns, rows |-> got.rows]]
       ELSE /\ parsed(c, "done", NoFailure)
            /\ UNCHANGED <<occup_vol, ops>>

Next ==
    \E c \in Callers :
        \/ construct(c)
        \/ call_clean(c)
        \/ clean_psds(c)
        \/ clean_summary(c)
        \/ clean_occup_vol(c)
        \/ open_w(c)
        \/ write(c)
        \/ parse_psds(c)
        \/ parse_summary(c)
        \/ parse_occup_vol(c)

(***************************************************************************)
(* Directories the loader is run on                                        *)
(***************************************************************************)
MaxPsdLen == 6
MaxOccupLen == 5
MaxSummaryLen == 5
MaxCommaLen == 4
MaxLines == 25
MaxDenied == 2

\* all the texts of at most n characters of an alphabet
Texts(alphabet, n) == UNION {[1..m -> alphabet] : m \in 0..n}

Num(a, b) == <<DigitSeq[a + 1], DOT, DigitSeq[b + 1]>>
\* a file of lines as the tool writes it, and as it is once cleaned
RawRow(fields) == <<SP, SP>> \o join(fields, <<SP, SP, SP>>) \o <<SP>>
Row(fields) == join(fields, <<SP>>)
File(lines) == join(lines, <<NL>>) \o <<NL>>

KeyNames == <<"A", "B", "C", "D", "E", "F", "G", "H", "I", "J", "K", "L", "M",
              "N", "O", "P", "Q", "R", "S", "T", "U", "V", "W", "X", "Y", "Z">>

\* line i >= 1 of a summary file: a name and a number, an integer at line 6
SummaryValue(i) == IF i = 6 THEN <<"6">> ELSE Num(i % 10, 5)
SummaryRow(i, raw) ==
    IF ~raw THEN Row(<<<<KeyNames[i]>>, SummaryValue(i)>>)
    ELSE IF i % 2 = 0
    THEN <<SP, KeyNames[i], SP, USCORE, "x", COLON, SP, SP>> \o SummaryValue(i)
    ELSE <<SP, KeyNames[i], SP, "x", COLON, SP, SP>> \o SummaryValue(i) \o <<SP>>
\* the same line once cleaned
CleanSummaryRow(i, raw) ==
    IF ~raw THEN SummaryRow(i, FALSE)
    ELSE <<KeyNames[i], USCORE, "x", SP>> \o SummaryValue(i)

\* a summary file of n lines; line `at` (if any) is `line`
SummaryLines(n, raw, at, line) ==
    [j \in 1..n |-> IF j - 1 = at THEN line
                    ELSE IF j = 1 THEN <<"f">>
                    ELSE SummaryRow(j - 1, raw)]

Heading == <<"t", "o", "t", "a", "l", COLON>>

Sample(k, raw) ==
    LET R(fields) == IF raw THEN RawRow(fields) ELSE Row(fields) IN
    CASE k = "psd_cum" ->
             File(<<<<"#">>, <<"#">>, <<"#">>, R(<<Num(1, 0), Num(0, 5)>>),
                    R(<<Num(2, 0), Num(0, 8)>>)>>)
      [] k = "psd" ->
             File(<<<<"#">>, R(<<Num(1, 0), Num(0, 1)>>),
                    R(<<Num(3, 0), Num(0, 2)>>)>>)
      [] k = "occup_vol" ->
             File(<<<<"1">>, <<"#">>,
                    R(<<<<"N", "a">>, Num(1, 0), Num(2, 0), Num(3, 0)>>)>>)
      [] k = "summary" ->
             File([j \in 1..24 |->
                     IF j - 1 \in {7, 11, 19, 23} THEN Heading
                     ELSE SummaryLines(24, raw, -1, <<>>)[j]])
      [] OTHER -> <<"x">>

Plans == {<<"new_clean", "clean">>, <<"new_raw", "clean">>}

\* the state before any call: callers 1..n are to make the calls of plans
InitCalls(plans) ==
    /\ orig = disk
    /\ plan = plans
    /\ call = [c \in Callers |-> "none"]
    /\ clean_arg = [c \in Callers |-> FALSE]
    /\ before = [c \in Callers |-> disk]
    /\ pc = [c \in Callers |-> "ready"]
    /\ cur = [c \in Callers |-> "none"]
    /\ data = [c \in Callers |-> <<>>]
    /\ existing_paths = [c \in Callers |-> [k \in {} |-> ""]]
    /\ psd = [c \in Callers |-> EmptyFrame]
    /\ occup_vol = [c \in Callers |-> EmptyFrame]
    /\ summary = [c \in Callers |-> {}]
    /\ input_file_name = [c \in Callers |-> <<>>]
    /\ printed = [c \in Callers |-> 0]
    /\ ops = [c \in Callers |-> {}]
    /\ failed = [c \in Callers |-> NoFailure]
    /\ snaps = [c \in Callers |-> <<>>]

OneCaller(p) == [c \in Callers |-> IF c = 1 THEN p ELSE <<>>]

DiskOf(files, content(_)) ==
    [f \in FileNames |->
        IF f \in files THEN content(CHOOSE k \in Keys : possible_paths[k] = f)
        ELSE <<>>]

\* Any subset of the eight files, as the tool wrote them or already cleaned;
\* one caller, with or without cleaning.
Init ==
    /\ present \in SUBSET FileNames
    /\ \E raw \in BOOLEAN :
           LET content(k) == Sample(k, raw) IN disk = DiskOf(present, content)
    /\ denied = {}
    /\ \E p \in Plans : InitCalls(OneCaller(p))

Spec == Init /\ [][Next]_vars

\* One cleaned file (the two PSD files together) holding any short text.
InitText ==
    /\ \/ \E t \in Texts({"a", SP, NL}, MaxPsdLen) :
              LET content(k) == t IN
              /\ present = {possible_paths["psd_cum"], possible_paths["psd"]}
              /\ disk = DiskOf(present, content)
       \/ \E t \in Texts({"a", SP, NL, CR}, MaxOccupLen) :
              LET content(k) == t IN
              /\ present = {possible_paths["occup_vol"]}
              /\ disk = DiskOf(present, content)
       \/ \E t \in Texts({"a", SP, USCORE, COLON, NL}, MaxSummaryLen)
                     \cup Texts({"a", SP, USCORE, COLON, NL, COMMA}, MaxCommaLen) :
              LET content(k) == t IN
              /\ present = {possible_paths["summary"]}
              /\ disk = DiskOf(present, content)
    /\ denied = {}
    /\ InitCalls(OneCaller(<<"new_clean", "clean">>))

SpecText == InitText /\ [][Next]_vars

\* Lines a summary file may hold in place of a "name value" line
PerturbLines ==
    {<<>>,
     <<"k">>,
     <<"k", SP, "x">>,
     <<"k", SP, "7">>,
     <<"k", SP, "7", DOT, "5">>,
     <<"k", SP, SP, "7">>,
     <<"k", SP, "7", SP, "x">>,
     <<"k", SP, "7", SP, "2", SP, "3">>,
     <<"a", SP, "b", SP, "c", SP, "d">>}

\* A summary file of up to MaxLines lines, one of them (any line of a file of
\* MaxLines lines, the last line of a shorter one) replaced.
InitLines ==
    /\ present = {possible_paths["summary"]}
    /\ \E n \in 0..MaxLines, raw \in BOOLEAN, line \in PerturbLines :
       \E at \in {-1} \cup (IF n = MaxLines THEN 0..(n - 1) ELSE {n - 1}) :
           LET content(k) == join(SummaryLines(n, raw, at, line), <<NL>>)
           IN  disk = DiskOf(present, content)
    /\ denied = {}
    /\ \E p \in Plans : InitCalls(OneCaller(p))

SpecLines == InitLines /\ [][Next]_vars

\* Any of the four cleaned files, with up to MaxDenied opens that fail.
InitDenied ==
    /\ present \in SUBSET {possible_paths[k] : k \in CleanKeys}
    /\ \E raw \in BOOLEAN :
           LET content(k) == Sample(k, raw) IN disk = DiskOf(present, content)
    /\ denied \in {d \in SUBSET ({possible_paths[k] : k \in CleanKeys} \X {"r", "w"}) :
                      Cardinality(d) <= MaxDenied}
    /\ \E p \in Plans : InitCalls(OneCaller(p))

SpecDenied == InitDenied /\ [][Next]_vars

\* Two callers construct over the same directory, which holds the two PSD
\* files as the tool wrote them.
InitRace ==
    /\ present = {possible_paths["psd_cum"], possible_paths["psd"]}
    /\ LET content(k) == Sample(k, TRUE) IN disk = DiskOf(present, content)
    /\ denied = {}
    /\ InitCalls([c \in Callers |->
                     IF c = 1 THEN <<"new_clean", "clean">> ELSE <<"new_clean">>])

SpecRace == InitRace /\ [][Next]_vars

(***************************************************************************)
(* Properties                                                              *)
(***************************************************************************)
File_(k) == possible_paths[k]
Exists(k) == File_(k) \in present
Empty(c) ==
    /\ psd[c] = EmptyFrame
    /\ occup_vol[c] = EmptyFrame
    /\ summary[c] = {}
    /\ input_file_name[c] = <<>>
Writes(c) == {o \in ops[c] : o[1] \in {"truncate", "write"}}
Parses(c) == {o[2] : o \in {x \in ops[c] : x[1] = "parse"}}

\* C1: whatever subset of the eight files exists, no call raises on a file
\* that is absent (with every present file as the tool wrote it and cleaning
\* on, or already clean, no call raises at all), and a result field is other
\* than empty only if all its input files exist: psd only with both psd_cum
\* and psd, summary and input_file_name only with summary, occup_vol only with
\* occup_vol.
C1_AbsentFilesSkipped ==
    \A c \in Callers :
        /\ pc[c] = "raised" => failed[c].key \in Keys /\ Exists(failed[c].key)
        /\ (clean_arg[c]
              \/ \A k \in CleanKeys : Exists(k) => orig[File_(k)] = Sample(k, FALSE))
               => pc[c] # "raised"
        /\ psd[c] # EmptyFrame => Exists("psd_cum") /\ Exists("psd")
        /\ summary[c] # {} \/ input_file_name[c] # <<>> => Exists("summary")
        /\ occup_vol[c] # EmptyFrame => Exists("occup_vol")
        /\ DOMAIN existing_paths[c] \subseteq {k \in Keys : Exists(k)}

\* a construction that returned with only one PSD file (and the occupied
\* volume) present: psd was skipped, occup_vol was parsed
C1_Witness ==
    /\ pc[1] = "done" /\ call[1] = "init"
    /\ Exists("psd") /\ ~Exists("psd_cum") /\ ~Exists("summary")
    /\ Exists("occup_vol") /\ Exists("N_net_grd")
    /\ psd[1] = EmptyFrame /\ summary[1] = {} /\ input_file_name[1] = <<>>
    /\ occup_vol[1] # EmptyFrame

\* C2 as stated: a clean=False construction writes nothing, every file keeps
\* its content, and every registered file among psd_cum, psd, summary and
\* occup_vol has been read by a parsing step when the construction ends.
C2_Original ==
    \A c \in Callers :
        (call[c] = "init" /\ ~clean_arg[c] /\ pc[c] \in {"done", "raised"})
            => /\ disk = before[c]
               /\ Writes(c) = {}
               /\ \A k \in CleanKeys : Registered(c, k) => k \in Parses(c)

\* the parsing steps a clean=False construction has come to, given where it is
Reached(c) ==
    CASE pc[c] = "parse_psds" -> {}
      [] pc[c] = "parse_summary" -> {"parse_psds"}
      [] pc[c] = "parse_occup_vol" -> {"parse_psds", "parse_summary"}
      [] pc[c] = "done" -> {"parse_psds", "parse_summary", "parse_occup_vol"}
      [] pc[c] = "raised" ->
             CASE failed[c].in = "parse_psds" -> {"parse_psds"}
               [] failed[c].in = "parse_summary" -> {"parse_psds", "parse_summary"}
               [] OTHER -> {"parse_psds", "parse_summary", "parse_occup_vol"}
      [] OTHER -> {}

\* C2, amended: a clean=False construction writes nothing and every file
\* keeps its content throughout; the parsing steps run in the order psd pair,
\* summary, occup_vol on that raw content, each reading its registered file
\* (psd_cum and psd only when both are registered), until one raises; the
\* files of the steps after a raising one are not read.
C2_Amended ==
    \A c \in Callers :
        (call[c] = "init" /\ ~clean_arg[c])
            => /\ disk = before[c]
               /\ Writes(c) = {}
               /\ {o \in ops[c] : o[1] = "read"} = {}
               /\ pc[c] \notin {"clean_psd_cum", "clean_psd", "clean_summary",
                                "clean_occup_vol", "open_w", "write"}
               /\ pc[c] = "raised" => failed[c].in \in {"parse_psds", "parse_summary",
                                                       "parse_occup_vol"}
               /\ Parses(c) \subseteq
                      (IF "parse_psds" \in Reached(c) /\ psds_registered(c)
                       THEN {"psd_cum", "psd"} ELSE {})
                      \cup (IF "parse_summary" \in Reached(c) THEN {"summary"} ELSE {})
                      \cup (IF "parse_occup_vol" \in Reached(c) THEN {"occup_vol"} ELSE {})
               /\ pc[c] = "done" =>
                      /\ psds_registered(c) => {"psd_cum", "psd"} \subseteq Parses(c)
                      /\ \A k \in {"summary", "occup_vol"} :
                             Registered(c, k) => k \in Parses(c)
                      /\ Registered(c, "summary") =>
                             summary[c] =
                                 parse_summary_result(before[c][File_("summary")]).summary
               /\ (pc[c] = "raised" /\ failed[c].in = "parse_summary")
                      => /\ "summary" \in Parses(c)
                         /\ ~parse_summary_result(before[c][File_("summary")]).ok

\* a clean=False construction over double-spaced files that raised in the
\* summary parse: nothing was written, and occup_vol, registered, was not read
C2_Witness ==
    /\ call[1] = "init" /\ ~clean_arg[1] /\ pc[1] = "raised"
    /\ failed[1].in = "parse_summary"
    /\ Contains(disk[File_("summary")], <<SP, SP>>)
    /\ disk = orig
    /\ "summary" \in Parses(1)
    /\ Registered(1, "occup_vol") /\ "occup_vol" \notin Parses(1)

\* the place of a key in the order clean() takes the files
Order(k) ==
    CASE k = "psd_cum" -> 1 [] k = "psd" -> 2 [] k = "summary" -> 3
      [] k = "occup_vol" -> 4 [] OTHER -> 0

FailedCleaning(c) == call[c] = "init" /\ failed[c].in = "clean"

\* C8: when an open of a registered file fails while a clean=True constructor
\* is cleaning, the construction is over at once: it has raised, no parsing
\* step has run and no result is set, the file whose open failed has not been
\* rewritten, no file later in the order psd_cum, psd, summary, occup_vol has
\* been read or rewritten, and from then on the call does nothing more (no
\* retry): the files and the call's operations stay as they are.
C8_CleaningFailureFatal ==
    /\ [](\A c \in Callers :
            FailedCleaning(c) =>
                /\ pc[c] = "raised"
                /\ clean_arg[c]
                /\ Registered(c, failed[c].key)
                /\ Parses(c) = {}
                /\ Empty(c)
                /\ \A o \in ops[c] : Order(o[2]) <= Order(failed[c].key)
                /\ \A o \in Writes(c) : o[2] # failed[c].key
                /\ \A k \in CleanKeys :
                       Order(k) >= Order(failed[c].key)
                           => disk[File_(k)] = before[c][File_(k)])
    /\ [][\A c \in Callers :
            FailedCleaning(c) =>
                /\ pc'[c] = "raised"
                /\ disk' = disk
                /\ ops'[c] = ops[c]
                /\ failed'[c] = failed[c]]_vars

\* the open for writing of Total_psd.txt failed after psd_cum had been
\* rewritten; summary and occup_vol, registered, are untouched
C8_Witness ==
    /\ pc[1] = "raised" /\ FailedCleaning(1) /\ failed[1].key = "psd"
    /\ <<File_("psd"), "w">> \in denied
    /\ ops[1] = {<<"read", "psd_cum">>, <<"truncate", "psd_cum">>,
                 <<"write", "psd_cum">>, <<"read", "psd">>}
    /\ disk[File_("psd_cum")] # before[1][File_("psd_cum")]
    /\ Registered(1, "summary") /\ Registered(1, "occup_vol")

\* the passes of clean() a caller has completed leave a file as the first left it
SamePasses(c, k) ==
    \A i, j \in 1..Len(snaps[c]) : snaps[c][i][k] = snaps[c][j][k]

Normalized(text) ==
    /\ ~Contains(text, <<SP, SP>>)
    /\ ~Contains(text, <<SP, NL>>)
    /\ ~Contains(text, <<NL, SP>>)

\* C3 as stated: cleaning a PSD file or the occupied-volume file a second
\* time leaves it as the first cleaning wrote it, and a cleaned PSD file holds
\* no two spaces in a row and no space next to a newline.
C3_Original ==
    \A c \in Callers :
        /\ \A k \in {"psd_cum", "psd", "occup_vol"} : SamePasses(c, k)
        /\ \A i \in 1..Len(snaps[c]) :
               Registered(c, "psd") => Normalized(snaps[c][i]["psd"])

\* C3, the part about the PSD files alone, which holds
C3_PsdPart ==
    \A c \in Callers :
        /\ \A k \in {"psd_cum", "psd"} : SamePasses(c, k)
        /\ \A i \in 1..Len(snaps[c]) :
               Registered(c, "psd") => Normalized(snaps[c][i]["psd"])

SummaryText(d) == ReadText(d[File_("summary")])

\* C4: when the summary file holds a comma, a call leaves it alone whatever
\* else it holds: the file is neither truncated nor written, nothing is
\* printed, and its content stays what it was when the call began.
C4_CommaGuard ==
    \A c \in Callers :
        (Registered(c, "summary") /\ Contains(SummaryText(before[c]), <<COMMA>>))
            => /\ disk[File_("summary")] = before[c][File_("summary")]
               /\ \A o \in Writes(c) : o[2] # "summary"
               /\ printed[c] = 0
               /\ pc[c] \in {"open_w", "write"} => cur[c] # "summary"

\* the summary cleaning has read a file that holds a comma, a colon and a
\* double space, and has returned
C4_Witness ==
    /\ pc[1] = "clean_occup_vol" /\ clean_arg[1]
    /\ <<"read", "summary">> \in ops[1]
    /\ Contains(disk[File_("summary")], <<COMMA>>)
    /\ Contains(disk[File_("summary")], <<COLON>>)
    /\ Contains(disk[File_("summary")], <<SP, SP>>)

\* the space-separated tokens of a line
Tokens(line) ==
    LET NonEmpty(t) == t # <<>> IN SelectSeq(split(line, SP), NonEmpty)

Joined(t) == t[1] \o <<USCORE>> \o t[2] \o <<SP>> \o t[3]

\* the summary file has been rewritten by the current call of caller c
Rewritten(c) == <<"write", "summary">> \in ops[c]

\* C5 as stated: once a comma-free summary file has been rewritten, every line
\* that held three space-separated tokens a, b, c is the line "a_b c".
C5_Original ==
    \A c \in Callers :
        Rewritten(c) =>
            LET old == splitlines(SummaryText(before[c]))
                new == splitlines(disk[File_("summary")])
            IN  \A i \in 1..Len(old) :
                    Len(Tokens(old[i])) = 3
                        => i <= Len(new) /\ new[i] = Joined(Tokens(old[i]))

\* tokens the normalization before the split leaves alone: no colon in any,
\* no underscore at the start of the second or the third
Plain(t) ==
    /\ \A n \in 1..Len(t) : ~Contains(t[n], <<COLON>>)
    /\ \A n \in 2..Len(t) : t[n][1] # USCORE

\* C5, amended: once a comma-free summary file has been rewritten, every line
\* that held three space-separated tokens a, b, c, none of them with a colon
\* and neither b nor c starting with an underscore, is the line "a_b c".
C5_Amended ==
    \A c \in Callers :
        Rewritten(c) =>
            LET old == splitlines(SummaryText(before[c]))
                new == splitlines(disk[File_("summary")])
            IN  \A i \in 1..Len(old) :
                    (Len(Tokens(old[i])) = 3 /\ Plain(Tokens(old[i])))
                        => i <= Len(new) /\ new[i] = Joined(Tokens(old[i]))

\* the file "a a a" has been rewritten as "a_a a"
C5_Witness ==
    /\ Rewritten(1)
    /\ before[1][File_("summary")] = <<"a", SP, "a", SP, "a">>
    /\ disk[File_("summary")] = <<"a", USCORE, "a", SP, "a">>

\* C10 as stated: cleaning a comma-free summary file a second time leaves it
\* as the first cleaning wrote it.
C10_Original ==
    \A c \in Callers :
        ~Contains(orig[File_("summary")], <<COMMA>>) => SamePasses(c, "summary")

\* the lines of the summary file as the parse of caller c finds them
Lines(c) == splitlines(SummaryText(disk))
Name(line) == split(line, SP)[1]
Value(line) == split(line, SP)[2]
Section(c, name) == (CHOOSE e \in summary[c] : e[1] = name)[2]
KeysOf(d) == {e[1] : e \in d}

\* the absolute indices of the lines each section of the summary is read from
GeneralLines(n) == {i \in 0..(n - 1) : 1 <= i /\ i <= 6}
TotalLines(n) == {i \in 0..(n - 1) : 8 <= i /\ i <= 18 /\ i # 11}
NetworkLines(n) == {i \in 0..(n - 1) : 20 <= i /\ i # 23}
Consumed(n) == GeneralLines(n) \cup TotalLines(n) \cup NetworkLines(n)

\* section d holds, for every line of I, the name of the line with the number
\* of the last line of that name: an integer for line 6, else a float
Holds(d, L, I) ==
    /\ KeysOf(d) = {Name(L[i + 1]) : i \in I}
    /\ \A i \in I :
           (\A j \in I : j > i => Name(L[j + 1]) # Name(L[i + 1]))
               => <<Name(L[i + 1]),
                    IF i = 6 THEN int_of(Value(L[i + 1]))
                    ELSE float_of(Value(L[i + 1]))>> \in d
    /\ \A e \in d : e[2].type = "int" <=> \E i \in I : i = 6 /\ Name(L[i + 1]) = e[1]

SummaryParsed(c) ==
    /\ call[c] = "init" /\ Registered(c, "summary")
    /\ pc[c] \in {"parse_occup_vol", "done"}
SummaryRaised(c) ==
    /\ call[c] = "init" /\ pc[c] = "raised" /\ failed[c].in = "parse_summary"

\* C6: the summary parse takes its lines by index alone: input_file_name is
\* line 0 as it stands, general_output holds the names of lines 1..6 with the
\* number of line 6 an integer and the others floats, total_output the names
\* of lines 8..18 but 11, network_accessible_output those of lines 20..end
\* but 23; and a parse that raises raises on one of those lines (or on the
\* missing line 0 of an empty file), never on line 7, 11, 19 or 23.
C6_LinesByIndex ==
    \A c \in Callers :
        LET L == Lines(c)
            n == Len(L)
        IN  /\ SummaryParsed(c) =>
                /\ n >= 1
                /\ input_file_name[c] = L[1]
                /\ KeysOf(summary[c]) = {"general_output", "total_output",
                                         "network_accessible_output"}
                /\ Holds(Section(c, "general_output"), L, GeneralLines(n))
                /\ Holds(Section(c, "total_output"), L, TotalLines(n))
                /\ Holds(Section(c, "network_accessible_output"), L, NetworkLines(n))
            /\ SummaryRaised(c) =>
                \/ n = 0 /\ failed[c].line = 0
                \/ failed[c].line \in Consumed(n)

\* a construction returned although line 23 of the summary holds one token:
\* the line gave no key, and the sections hold 6, 10 and 4 names
C6_Witness ==
    /\ SummaryParsed(1) /\ pc[1] = "done"
    /\ Len(Lines(1)) >= 25
    /\ Lines(1)[24] = <<"k">>
    /\ Cardinality(Section(1, "general_output")) = 6
    /\ Cardinality(Section(1, "total_output")) = 10
    /\ Cardinality(Section(1, "network_accessible_output")) = Len(Lines(1)) - 21

Unparsable(line, i) ==
    \/ Len(split(line, SP)) < 2
    \/ IF i = 6 THEN ~is_int(Value(line)) ELSE ~is_float(Value(line))

CleanedForm(k) == clean_psds_data(ReadText(orig[File_(k)]))
Finished(c) == plan[c] = <<>> /\ pc[c] \in {"done", "raised"}
PsdKeys == {"psd_cum", "psd"}

\* C9: two callers constructing with clean=True over one directory are not
\* kept apart: each cleaning is a read, then a truncating open, then a write
\* of the same path, so a PSD file holds at any moment its original content,
\* nothing, or the cleaned form of the original; what a caller is about to
\* write is the cleaned form of whichever of these it read; and once both
\* callers are through the file holds the cleaned form or nothing at all.
\* The last case, a final content that is not the cleaned form of the
\* original, is reachable (C9_Witness).
C9_RaceOutcomes ==
    \A k \in PsdKeys :
        /\ disk[File_(k)] \in {orig[File_(k)], <<>>, CleanedForm(k)}
        /\ \A c \in Callers :
               cur[c] = k => data[c] \in {CleanedForm(k), clean_psds_data(<<>>)}
        /\ (\A c \in Callers : Finished(c))
               => disk[File_(k)] \in {CleanedForm(k), <<>>}

\* both callers are through, and a PSD file that had content is left empty:
\* one caller read it between the other's truncating open and its write
C9_Witness ==
    /\ \A c \in Callers : Finished(c)
    /\ \E k \in PsdKeys :
           /\ disk[File_(k)] = <<>>
           /\ CleanedForm(k) # <<>>
           /\ \A c \in Callers : <<"write", k>> \in ops[c] \/ call[c] = "clean"

=============================================================================
